---- MODULE Spec2Model ----
(***************************************************************************)
(* Model of src/server.js: an Express server that brokers payments with    *)
(* the Kassa.ai processor.  The file holds two variants of the server:     *)
(* the strict one (lines 1-190), which refuses to start without a merchant *)
(* id and a secret, and the permissive one (lines 192-400), which falls    *)
(* back to demo defaults.  Both expose POST /api/create-payment (an async  *)
(* handler with two suspension points) and POST /api/payment-callback (a   *)
(* synchronous handler).                                                   *)
(*                                                                         *)
(* Message texts that are Cyrillic in the source are transliterated, since *)
(* the module is ASCII.                                                    *)
(***************************************************************************)
EXTENDS Integers, Sequences, FiniteSets, TLC

VARIABLES
    variant,       \* "strict" (lines 1-190) or "permissive" (lines 192-400)
    env,           \* process.env: the four variables the server reads ("" = unset)
    server,        \* "starting", "listening" or "exited"
    KASSA_CONFIG,  \* the configuration object built at startup
    startupLog,    \* console lines written outside the request handlers
    reqs           \* per HTTP request: the handler's locals, position and effects

vars == <<variant, env, server, KASSA_CONFIG, startupLog, reqs>>

(***************************************************************************)
(* Bounds of the model.                                                    *)
(***************************************************************************)
\* Number of HTTP requests that may be in flight together.
MaxReq == 2
\* Date.now() is read as any value of 0..MaxClock.
MaxClock == 1

Reqs == 1..MaxReq

(***************************************************************************)
(* JavaScript values.  Every value is a record of one shape, so that any   *)
(* two values can be compared: t is the type tag, s the text of a string   *)
(* or boolean (or the literal an object was parsed from, or "NaN"), n the  *)
(* value of a number.                                                      *)
(***************************************************************************)
Str(s)    == [t |-> "string",    s |-> s,      n |-> 0]
Num(n)    == [t |-> "number",    s |-> "",     n |-> n]
NaN       == [t |-> "number",    s |-> "NaN",  n |-> 0]
\* A number that is not an integer, named by its decimal literal.
Dec(lit)  == [t |-> "number",    s |-> lit,    n |-> 0]
Bool(b)   == [t |-> "boolean",   s |-> IF b THEN "true" ELSE "false", n |-> 0]
Null      == [t |-> "null",      s |-> "",     n |-> 0]
Undefined == [t |-> "undefined", s |-> "",     n |-> 0]
\* An object or array parsed from JSON, named by its literal.
Obj(lit)  == [t |-> "object",    s |-> lit,    n |-> 0]

\* The JSON objects and arrays the model draws nested values from.
ObjPlainA      == Obj("{a:1}")
ObjPlainB      == Obj("{b:2}")
ObjArray       == Obj("[1,2]")
\* Own property toString that is not callable: ToPrimitive finds no usable
\* toString, Object.prototype.valueOf returns the object, and the
\* conversion raises TypeError.
ObjBadToString == Obj("{toString:1}")

\* ToBoolean, as applied by !x and x || y.
Truthy(v) ==
    CASE v.t = "string"  -> v.s # ""
      [] v.t = "number"  -> v.s # "NaN" /\ (v.n # 0 \/ v.s # "")
      [] v.t = "boolean" -> v.s = "true"
      [] v.t = "object"  -> TRUE
      [] OTHER           -> FALSE

\* Mutant of OrElse: the default is never taken.
OrElseNoDefault(x, y) == x

\* x || y
OrElse(x, y) == IF Truthy(x) THEN x ELSE y

\* Conversion of v to a primitive raises TypeError.
Throws(v) == v = ObjBadToString

\* ToString, as applied by a template literal `${v}` (defined when ~Throws(v)).
ToStr(v) ==
    CASE v.t = "string"    -> v.s
      [] v.t = "number"    -> IF v.s # "" THEN v.s ELSE ToString(v.n)
      [] v.t = "boolean"   -> v.s
      [] v.t = "null"      -> "null"
      [] v.t = "undefined" -> "undefined"
      [] v.t = "object"    -> IF v = ObjArray THEN "1,2" ELSE "[object Object]"

\* Mutant of StrictEq: a missing left operand passes (sign && sign !== expected).
StrictEqOrMissing(a, b) ==
    \/ ~Truthy(a)
    \/ a.t = b.t /\ a.t # "object" /\ a = b

\* a === b.  Two objects parsed from different JSON texts are never identical.
StrictEq(a, b) ==
    /\ a.t = b.t
    /\ a.t # "object"
    /\ ~(a.t = "number" /\ (a.s = "NaN" \/ b.s = "NaN"))
    /\ a = b

(***************************************************************************)
(* JavaScript objects: a sequence of [k, v] entries with distinct keys, in *)
(* insertion order (the order Object.keys returns).                        *)
(***************************************************************************)
Entry(k, v) == [k |-> k, v |-> v]

HasKey(o, k) == \E i \in 1..Len(o) : o[i].k = k

\* o[k]
Get(o, k) ==
    IF HasKey(o, k) THEN o[CHOOSE i \in 1..Len(o) : o[i].k = k].v ELSE Undefined

\* Mutant of Delete: the key is left in place.
DeleteNothing(o, k) == o

\* delete o[k]
Delete(o, k) == SelectSeq(o, LAMBDA e : e.k # k)

\* o[k] = v
Put(o, k, v) ==
    IF HasKey(o, k)
    THEN [i \in 1..Len(o) |-> IF o[i].k = k THEN Entry(k, v) ELSE o[i]]
    ELSE Append(o, Entry(k, v))

\* Object.keys(o)
ObjectKeys(o) == [i \in 1..Len(o) |-> o[i].k]

(***************************************************************************)
(* Array.prototype.sort() without a comparator orders strings by their     *)
(* UTF-16 code units.  CodeUnits gives the code units of every key name    *)
(* the model uses.                                                         *)
(***************************************************************************)
CodeUnits ==
    [ amount |-> <<97, 109, 111, 117, 110, 116>>,
      callback_url |-> <<99, 97, 108, 108, 98, 97, 99, 107, 95, 117, 114, 108>>,
      currency |-> <<99, 117, 114, 114, 101, 110, 99, 121>>,
      customer_email |-> <<99, 117, 115, 116, 111, 109, 101, 114, 95, 101, 109, 97, 105, 108>>,
      customer_phone |-> <<99, 117, 115, 116, 111, 109, 101, 114, 95, 112, 104, 111, 110, 101>>,
      description |-> <<100, 101, 115, 99, 114, 105, 112, 116, 105, 111, 110>>,
      fail_url |-> <<102, 97, 105, 108, 95, 117, 114, 108>>,
      merchant_id |-> <<109, 101, 114, 99, 104, 97, 110, 116, 95, 105, 100>>,
      note |-> <<110, 111, 116, 101>>,
      order_id |-> <<111, 114, 100, 101, 114, 95, 105, 100>>,
      payment_id |-> <<112, 97, 121, 109, 101, 110, 116, 95, 105, 100>>,
      payment_method |-> <<112, 97, 121, 109, 101, 110, 116, 95, 109, 101, 116, 104, 111, 100>>,
      sign |-> <<115, 105, 103, 110>>,
      status |-> <<115, 116, 97, 116, 117, 115>>,
      success_url |-> <<115, 117, 99, 99, 101, 115, 115, 95, 117, 114, 108>> ]

\* a sorts strictly before b: lexicographic order of the code units.
KeyLess(a, b) ==
    LET x == CodeUnits[a]
        y == CodeUnits[b]
    IN  \E i \in 1..(Len(x) + 1) :
            /\ \A j \in 1..(i - 1) : j <= Len(y) /\ x[j] = y[j]
            /\ \/ i = Len(x) + 1 /\ Len(y) >= i
               \/ i <= Len(x) /\ i <= Len(y) /\ x[i] < y[i]

\* Mutant of Sort: the keys stay in insertion order.
SortKeepsOrder(keys) == keys

\* The keys that sort strictly before each key (the comparison of KeyLess,
\* tabulated once).
KeysBefore == [a \in DOMAIN CodeUnits |-> {b \in DOMAIN CodeUnits : KeyLess(b, a)}]

\* keys.sort(), for distinct keys: the key at position i is the one that
\* exactly i - 1 of the keys sort before.
Sort(keys) ==
    LET given == {keys[j] : j \in 1..Len(keys)}
    IN  [ i \in 1..Len(keys) |->
            CHOOSE k \in given : Cardinality(KeysBefore[k] \cap given) = i - 1 ]

\* parts.join(sep)
RECURSIVE Join(_, _)
Join(parts, sep) ==
    IF parts = <<>> THEN ""
    ELSE IF Len(parts) = 1 THEN parts[1]
    ELSE parts[1] \o sep \o Join(Tail(parts), sep)

\* Building the canonical string of o raises: some `${o[key]}` does.
CanonThrows(o) == \E i \in 1..Len(o) : Throws(o[i].v)

\* Object.keys(o).sort().map(key => `${key}=${o[key]}`).join('&')
SignString(o) ==
    LET keys == Sort(ObjectKeys(o))
    IN  Join([i \in 1..Len(keys) |-> keys[i] \o "=" \o ToStr(Get(o, keys[i]))], "&")

\* crypto.createHmac('sha256', key).update(msg).digest('hex'): an ideal MAC,
\* a string that determines and is determined by the pair (key, msg).
Hmac(key, msg) == "hmac-sha256<" \o key \o "><" \o msg \o ">"

(***************************************************************************)
(* Console output and HTTP responses.                                      *)
(***************************************************************************)
\* console.log / console.error with a text and, possibly, an object.
LogEntry(level, text, data) == [level |-> level, text |-> text, data |-> data]

NoResponse      == [status |-> 0, text |-> "", json |-> <<>>]
\* res.status(code).send(text)
SendText(code, text) == [status |-> code, text |-> text, json |-> <<>>]
\* res.status(code).json(obj)
SendJson(code, obj)  == [status |-> code, text |-> "", json |-> obj]

\* An Error object, as console.error prints it.
ErrorValue(msg) == <<Entry("error", Str(msg))>>
ErrToPrimitive  == "TypeError: Cannot convert object to primitive value"
ErrNullProperty == "TypeError: Cannot read properties of null"
ErrFetchFailed  == "TypeError: fetch failed"
ErrNotJson      == "SyntaxError: Unexpected token in JSON"

(***************************************************************************)
(* Configuration and startup.                                              *)
(***************************************************************************)
DEMO_MERCHANT_ID == "demo_merchant_id"
DEMO_SECRET_KEY  == "demo_secret_key"
DEFAULT_BASE_URL == "https://payment.kassa.ai"

NoConfig == [merchantId |-> "", secretKey |-> "", baseUrl |-> ""]

\* Strict variant: the values of the environment, only the base URL defaulted.
StrictConfig(e) ==
    [ merchantId |-> e.KASSA_MERCHANT_ID,
      secretKey  |-> e.KASSA_SECRET_KEY,
      baseUrl    |-> IF e.KASSA_BASE_URL # "" THEN e.KASSA_BASE_URL ELSE DEFAULT_BASE_URL ]

\* Permissive variant: every value defaulted.
PermissiveConfig(e) ==
    [ merchantId |-> IF e.KASSA_MERCHANT_ID # "" THEN e.KASSA_MERCHANT_ID ELSE DEMO_MERCHANT_ID,
      secretKey  |-> IF e.KASSA_SECRET_KEY # "" THEN e.KASSA_SECRET_KEY ELSE DEMO_SECRET_KEY,
      baseUrl    |-> IF e.KASSA_BASE_URL # "" THEN e.KASSA_BASE_URL ELSE DEFAULT_BASE_URL ]

\* getBaseUrl(req): process.env.BASE_URL || `${req.protocol}://${req.get('host')}`
getBaseUrl(host) == IF env.BASE_URL # "" THEN env.BASE_URL ELSE "http://" \o host

\* The Host headers requests carry.
Hosts == {"localhost:3000"}

\* A request slot nobody uses.
IdleReq ==
    [ kind |-> "none", pc |-> "idle", body |-> <<>>, host |-> "",
      callbackData |-> <<>>, sign |-> Undefined, signString |-> "",
      expectedSign |-> "", paymentData |-> <<>>, hmacs |-> 0, posts |-> <<>>,
      result |-> [isObject |-> FALSE, val |-> Undefined, fields |-> <<>>],
      res |-> NoResponse, handled |-> "", log |-> <<>> ]

\* The strict variant's module body and its listen callback.
StartupStrict ==
    /\ variant = "strict"
    /\ server = "starting"
    /\ LET cfg == StrictConfig(env)
       IN  /\ KASSA_CONFIG' = cfg
           /\ IF cfg.merchantId = "" \/ cfg.secretKey = ""
              THEN /\ server' = "exited"
                   /\ startupLog' = <<LogEntry("error",
                          "Oshibka: KASSA_MERCHANT_ID i KASSA_SECRET_KEY dolzhny byt ustanovleny", <<>>)>>
              ELSE /\ server' = "listening"
                   /\ startupLog' =
                        << LogEntry("log", "Konfiguraciya Kassa.ai zagruzhena", <<>>),
                           LogEntry("log", "Server zapushchen", <<>>),
                           LogEntry("log", "Baza URL: " \o
                               (IF env.BASE_URL # "" THEN env.BASE_URL ELSE "http://localhost"), <<>>),
                           LogEntry("log", "Merchant: " \o cfg.merchantId, <<>>) >>
    /\ UNCHANGED <<variant, env, reqs>>

\* The permissive variant's module body and its listen callback.
StartupPermissive ==
    /\ variant = "permissive"
    /\ server = "starting"
    /\ LET cfg == PermissiveConfig(env)
       IN  /\ KASSA_CONFIG' = cfg
           /\ server' = "listening"
           /\ startupLog' =
                << LogEntry("log", "Server zapuskaetsya...", <<>>),
                   LogEntry("log", "Rezhim: " \o
                       (IF env.KASSA_MERCHANT_ID # "" THEN "PRODUCTION" ELSE "DEMO"), <<>>),
                   LogEntry("log", "Merchant: " \o cfg.merchantId, <<>>),
                   LogEntry("log", "Server zapushchen", <<>>),
                   LogEntry("log", "Baza URL: " \o
                       (IF env.BASE_URL # "" THEN env.BASE_URL ELSE "http://localhost"), <<>>),
                   LogEntry("log", "Rezhim: " \o
                       (IF cfg.merchantId = DEMO_MERCHANT_ID THEN "DEMO" ELSE "PRODUCTION"), <<>>),
                   LogEntry("log", "callback URL: " \o
                       (IF env.BASE_URL # "" THEN env.BASE_URL ELSE "https://your-app.onrender.com")
                       \o "/api/payment-callback", <<>>) >>
    /\ UNCHANGED <<variant, env, reqs>>

(***************************************************************************)
(* POST /api/payment-callback.  The handler is synchronous: it runs to its *)
(* response in one step.                                                   *)
(***************************************************************************)
TerminalStatuses == {"succeeded", "failed", "canceled"}

\* Mutant of CaseMatches: the canceled case is missing.
CaseMatchesNoCanceled(v) == v.t = "string" /\ v.s \in {"succeeded", "failed"}

\* Mutant of CaseMatches: a module-level flag lets the status handling run
\* once only, for the first callback that reaches it.
CaseMatchesOnce(v) ==
    /\ v.t = "string" /\ v.s \in TerminalStatuses
    /\ \A q \in Reqs : reqs[q].handled = ""

\* A case label of the switch matches v (the switch compares with ===).
CaseMatches(v) == v.t = "string" /\ v.s \in TerminalStatuses

\* The console line of the matching case.
StatusLine(status, orderId) ==
    CASE status = "succeeded" -> "Platezh uspeshen dlya zakaza " \o orderId
      [] status = "failed"    -> "Platezh failed dlya zakaza " \o orderId
      [] status = "canceled"  -> "Platezh otmenen dlya zakaza " \o orderId

\* The request record the callback handler leaves for request body `body`,
\* with the signature checked (verify) or not.
CallbackOutcome(body, verify) ==
    LET entry    == LogEntry("log", "Callback ot Kassa.ai:",
                        << Entry("orderId", Get(body, "order_id")),
                           Entry("status", Get(body, "status")),
                           Entry("paymentId", Get(body, "payment_id")) >>)
        sign     == IF verify THEN Get(body, "sign") ELSE Undefined
        data     == IF verify THEN Delete(body, "sign") ELSE body
        raisesV  == verify /\ CanonThrows(data)
        computed == verify /\ ~raisesV
        str      == IF computed THEN SignString(data) ELSE ""
        expected == IF computed THEN Hmac(KASSA_CONFIG.secretKey, str) ELSE ""
        mismatch == computed /\ ~StrictEq(sign, Str(expected))
        status   == Get(data, "status")
        matches  == CaseMatches(status)
        raisesH  == matches /\ Throws(Get(data, "order_id"))
        caught   == LogEntry("error", "Oshibka obrabotki callback:", ErrorValue(ErrToPrimitive))
        base     == [ IdleReq EXCEPT !.kind = "callback", !.pc = "done", !.body = body,
                          !.callbackData = data, !.sign = sign, !.signString = str,
                          !.expectedSign = expected,
                          !.hmacs = IF computed THEN 1 ELSE 0 ]
    IN  IF raisesV THEN
            [ base EXCEPT !.res = SendText(500, "Error"), !.log = <<entry, caught>> ]
        ELSE IF mismatch THEN
            [ base EXCEPT !.res = SendText(400, "Invalid signature"),
                          !.log = <<entry, LogEntry("error", "Nevernaya podpis v callback", <<>>)>> ]
        ELSE IF raisesH THEN
            [ base EXCEPT !.res = SendText(500, "Error"), !.log = <<entry, caught>> ]
        ELSE IF matches THEN
            [ base EXCEPT !.res = SendText(200, "OK"), !.handled = status.s,
                          !.log = <<entry, LogEntry("log",
                              StatusLine(status.s, ToStr(Get(data, "order_id"))), <<>>)>> ]
        ELSE
            [ base EXCEPT !.res = SendText(200, "OK"), !.log = <<entry>> ]

\* Strict variant: the signature is always checked.
VerifiesStrict == TRUE

\* Permissive variant: the signature is checked unless the merchant id is the demo one.
VerifiesPermissive == KASSA_CONFIG.merchantId # DEMO_MERCHANT_ID

\* A callback with a body of `bodies` arrives as request r.
PaymentCallbackStrict(r, bodies) ==
    /\ variant = "strict"
    /\ server = "listening"
    /\ reqs[r].pc = "idle"
    /\ \E body \in bodies :
          reqs' = [reqs EXCEPT ![r] = CallbackOutcome(body, VerifiesStrict)]
    /\ UNCHANGED <<variant, env, server, KASSA_CONFIG, startupLog>>

PaymentCallbackPermissive(r, bodies) ==
    /\ variant = "permissive"
    /\ server = "listening"
    /\ reqs[r].pc = "idle"
    /\ \E body \in bodies :
          reqs' = [reqs EXCEPT ![r] = CallbackOutcome(body, VerifiesPermissive)]
    /\ UNCHANGED <<variant, env, server, KASSA_CONFIG, startupLog>>

(***************************************************************************)
(* POST /api/create-payment.  The handler is async: it runs to its first   *)
(* await in one step, and each promise it awaits settles in a later step.  *)
(***************************************************************************)
MsgRequiredFields == "Neobhodimye polya: amount, orderId, email"
MsgUnknownGateway == "Neizvestnaya oshibka ot platezhnoj sistemy"
MsgInternalError  == "Vnutrennyaya oshibka servera"

\* The numeric strings among the inputs of the model, with their values.
NumericStrings == [s \in {"100", "7"} |-> IF s = "100" THEN 100 ELSE 7]

\* ToNumber, as applied by amount * 100 (defined when ~Throws(v)).
ToNumber(v) ==
    CASE v.t = "number"    -> v
      [] v.t = "string"    -> IF v.s = "" THEN Num(0)
                              ELSE IF v.s \in DOMAIN NumericStrings
                                   THEN Num(NumericStrings[v.s]) ELSE NaN
      [] v.t = "boolean"   -> IF v.s = "true" THEN Num(1) ELSE Num(0)
      [] v.t = "null"      -> Num(0)
      [] v.t = "undefined" -> NaN
      [] v.t = "object"    -> NaN

\* Math.round(x * 100) for the decimal literals x among the inputs of the model,
\* with the product taken in IEEE 754 doubles: 0.001 * 100 is 0.1 and
\* 19.99 * 100 is 1998.9999999999998.
DecimalTimes100 == [s \in {"0.001", "19.99"} |-> IF s = "0.001" THEN 0 ELSE 1999]

\* Math.round(amount * 100)
RoundTimes100(amount) ==
    LET x == ToNumber(amount)
    IN  IF x.s = "NaN" THEN NaN
        ELSE IF x.s # "" THEN Num(DecimalTimes100[x.s])
        ELSE Num(x.n * 100)

\* The loop that deletes the entries whose value is null, undefined or ''.
PruneEmpty(o) ==
    SelectSeq(o, LAMBDA e : ~(e.v = Null \/ e.v = Undefined \/ e.v = Str("")))

\* JSON.stringify(o) of a flat object, as the object the receiver parses:
\* NaN is written as null and an undefined value drops its key.
JsonStringify(o) ==
    LET kept == SelectSeq(o, LAMBDA e : e.v # Undefined)
    IN  [i \in 1..Len(kept) |-> IF kept[i].v = NaN THEN Entry(kept[i].k, Null) ELSE kept[i]]

\* Mutant of BuildPaymentData: fail_url is built like callback_url, without
\* the order id.
BuildPaymentDataBareFail(body, host) ==
    LET orderId == Get(body, "orderId")
        base    == getBaseUrl(host)
    IN  << Entry("merchant_id", Str(KASSA_CONFIG.merchantId)),
           Entry("amount", RoundTimes100(Get(body, "amount"))),
           Entry("currency", Str("RUB")),
           Entry("order_id", orderId),
           Entry("description", OrElse(Get(body, "description"),
                                       Str("Oplata zakaza " \o ToStr(orderId)))),
           Entry("customer_email", Get(body, "email")),
           Entry("customer_phone", OrElse(Get(body, "phone"), Str(""))),
           Entry("success_url", Str(base \o "/success?order_id=" \o ToStr(orderId))),
           Entry("fail_url", Str(base \o "/fail")),
           Entry("callback_url", Str(base \o "/api/payment-callback")),
           Entry("payment_method", OrElse(Get(body, "paymentMethod"), Str("card"))) >>

\* const paymentData = {...}, for the destructured request body.
BuildPaymentData(body, host) ==
    LET orderId == Get(body, "orderId")
        base    == getBaseUrl(host)
    IN  << Entry("merchant_id", Str(KASSA_CONFIG.merchantId)),
           Entry("amount", RoundTimes100(Get(body, "amount"))),
           Entry("currency", Str("RUB")),
           Entry("order_id", orderId),
           Entry("description", OrElse(Get(body, "description"),
                                       Str("Oplata zakaza " \o ToStr(orderId)))),
           Entry("customer_email", Get(body, "email")),
           Entry("customer_phone", OrElse(Get(body, "phone"), Str(""))),
           Entry("success_url", Str(base \o "/success?order_id=" \o ToStr(orderId))),
           Entry("fail_url", Str(base \o "/fail?order_id=" \o ToStr(orderId))),
           Entry("callback_url", Str(base \o "/api/payment-callback")),
           Entry("payment_method", OrElse(Get(body, "paymentMethod"), Str("card"))) >>

\* Mutant of MissingRequired: the email check is forgotten.
MissingRequiredNoEmail(body) ==
    \/ ~Truthy(Get(body, "amount"))
    \/ ~Truthy(Get(body, "orderId"))

\* !amount || !orderId || !email
MissingRequired(body) ==
    \/ ~Truthy(Get(body, "amount"))
    \/ ~Truthy(Get(body, "orderId"))
    \/ ~Truthy(Get(body, "email"))

\* The object literal raises: amount * 100 or a `${orderId}` does.
BuildThrows(body) == Throws(Get(body, "amount")) \/ Throws(Get(body, "orderId"))

\* Mutant of CatchCreate: the response carries the error's message.
CatchCreateLeaky(req, msg) ==
    [ req EXCEPT !.pc  = "done",
                 !.log = Append(req.log, LogEntry("error", "Oshibka servera:", ErrorValue(msg))),
                 !.res = SendJson(500, << Entry("success", Bool(FALSE)),
                                          Entry("error", Str(msg)) >>) ]

\* Mutant of CatchCreate: the configuration is printed next to the error.
CatchCreateLogsConfig(req, msg) ==
    [ req EXCEPT !.pc  = "done",
                 !.log = Append(req.log, LogEntry("error", "Oshibka servera:",
                            ErrorValue(msg) \o
                            << Entry("merchantId", Str(KASSA_CONFIG.merchantId)),
                               Entry("secretKey", Str(KASSA_CONFIG.secretKey)) >>)),
                 !.res = SendJson(500, << Entry("success", Bool(FALSE)),
                                          Entry("error", Str(MsgInternalError)) >>) ]

\* The catch block of create-payment: the error goes to the console, the
\* response is the fixed one.
CatchCreate(req, msg) ==
    [ req EXCEPT !.pc  = "done",
                 !.log = Append(req.log, LogEntry("error", "Oshibka servera:", ErrorValue(msg))),
                 !.res = SendJson(500, << Entry("success", Bool(FALSE)),
                                          Entry("error", Str(MsgInternalError)) >>) ]

\* Mutant of Fetch: the POST is sent again after the first attempt.
FetchTwice(req, paymentData) ==
    LET post == [ url    |-> KASSA_CONFIG.baseUrl \o "/api/v1/payments",
                  method |-> "POST",
                  body   |-> JsonStringify(paymentData) ]
    IN  [ req EXCEPT !.pc = "awaitFetch", !.posts = req.posts \o <<post, post>> ]

\* The outbound call: one POST of the serialized paymentData.
Fetch(req, paymentData) ==
    [ req EXCEPT !.pc    = "awaitFetch",
                 !.posts = Append(req.posts,
                               [ url    |-> KASSA_CONFIG.baseUrl \o "/api/v1/payments",
                                 method |-> "POST",
                                 body   |-> JsonStringify(paymentData) ]) ]

\* The handler from its entry to its first await (or to its response), for
\* request body `body`; demo: the permissive variant's demo branch is taken.
CreateOutcome(body, host, demo) ==
    LET start  == [ IdleReq EXCEPT !.kind = "create", !.body = body, !.host = host ]
        pruned == PruneEmpty(BuildPaymentData(body, host))
        str    == SignString(pruned)
        signat == Hmac(KASSA_CONFIG.secretKey, str)
        signed == [ start EXCEPT
                      !.paymentData = Put(pruned, "sign", Str(signat)),
                      !.signString  = str,
                      !.hmacs       = 1,
                      !.log = << LogEntry("log", "Sozdanie platezha:",
                                     << Entry("orderId", Get(body, "orderId")),
                                        Entry("amount", Get(body, "amount")),
                                        Entry("email", Get(body, "email")) >>) >> ]
    IN  IF MissingRequired(body) THEN
            [ start EXCEPT !.pc  = "done",
                           !.res = SendJson(400, << Entry("success", Bool(FALSE)),
                                                    Entry("error", Str(MsgRequiredFields)) >>) ]
        ELSE IF demo THEN
            [ start EXCEPT !.pc  = "awaitTimer",
                           !.log = << LogEntry("log", "Demo-rezhim: simulyaciya platezha dlya zakaza",
                                          <<Entry("orderId", Get(body, "orderId"))>>) >> ]
        ELSE IF BuildThrows(body) THEN CatchCreate(start, ErrToPrimitive)
        ELSE IF CanonThrows(pruned) THEN
            CatchCreate([start EXCEPT !.paymentData = pruned], ErrToPrimitive)
        ELSE Fetch(signed, signed.paymentData)

\* A create-payment request with a body of `bodies` arrives as request r.
CreatePaymentStrict(r, bodies) ==
    /\ variant = "strict"
    /\ server = "listening"
    /\ reqs[r].pc = "idle"
    /\ \E body \in bodies, host \in Hosts :
          reqs' = [reqs EXCEPT ![r] = CreateOutcome(body, host, FALSE)]
    /\ UNCHANGED <<variant, env, server, KASSA_CONFIG, startupLog>>

CreatePaymentPermissive(r, bodies) ==
    /\ variant = "permissive"
    /\ server = "listening"
    /\ reqs[r].pc = "idle"
    /\ \E body \in bodies, host \in Hosts :
          reqs' = [reqs EXCEPT ![r] =
                     CreateOutcome(body, host, KASSA_CONFIG.merchantId = DEMO_MERCHANT_ID)]
    /\ UNCHANGED <<variant, env, server, KASSA_CONFIG, startupLog>>

\* The demo branch after its setTimeout promise resolves; now is Date.now().
DemoTimerFires(r, now) ==
    /\ reqs[r].pc = "awaitTimer"
    /\ LET req     == reqs[r]
           orderId == Get(req.body, "orderId")
       IN  reqs' = [reqs EXCEPT ![r] =
               IF Throws(orderId) THEN CatchCreate(req, ErrToPrimitive)
               ELSE [ req EXCEPT
                        !.pc  = "done",
                        !.res = SendJson(200,
                           << Entry("success", Bool(TRUE)),
                              Entry("paymentUrl",
                                    Str("/success?order_id=" \o ToStr(orderId) \o "&demo=true")),
                              Entry("paymentId", Str("demo_payment_" \o ToString(now))),
                              Entry("demo", Bool(TRUE)) >>) ]]
    /\ UNCHANGED <<variant, env, server, KASSA_CONFIG, startupLog>>

\* fetch() rejects: the network call failed.
FetchRejects(r) ==
    /\ reqs[r].pc = "awaitFetch"
    /\ reqs' = [reqs EXCEPT ![r] = CatchCreate(reqs[r], ErrFetchFailed)]
    /\ UNCHANGED <<variant, env, server, KASSA_CONFIG, startupLog>>

\* Mutant of FetchResolves: the outbound calls are serialized, and a reply is
\* taken up only when no other request awaits one.
FetchResolvesInTurn(r) ==
    /\ reqs[r].pc = "awaitFetch"
    /\ \A q \in Reqs \ {r} : reqs[q].pc \notin {"awaitFetch", "awaitJson", "awaitTimer"}
    /\ reqs' = [reqs EXCEPT ![r].pc = "awaitJson"]
    /\ UNCHANGED <<variant, env, server, KASSA_CONFIG, startupLog>>

\* fetch() resolves with a response; the handler calls response.json().
FetchResolves(r) ==
    /\ reqs[r].pc = "awaitFetch"
    /\ reqs' = [reqs EXCEPT ![r].pc = "awaitJson"]
    /\ UNCHANGED <<variant, env, server, KASSA_CONFIG, startupLog>>

\* response.json() rejects: the body is not JSON.
JsonRejects(r) ==
    /\ reqs[r].pc = "awaitJson"
    /\ reqs' = [reqs EXCEPT ![r] = CatchCreate(reqs[r], ErrNotJson)]
    /\ UNCHANGED <<variant, env, server, KASSA_CONFIG, startupLog>>

(***************************************************************************)
(* What the processor's body parses to: a JSON object (isObject, with its  *)
(* fields) or another JSON value (val).                                    *)
(***************************************************************************)
JsonObject(fields) == [isObject |-> TRUE,  val |-> Undefined, fields |-> fields]
JsonOther(v)       == [isObject |-> FALSE, val |-> v,         fields |-> <<>>]
NoResult           == JsonOther(Undefined)

\* result[k]; reading a property of null raises (PropThrows).
PropThrows(result) == ~result.isObject /\ result.val = Null
Prop(result, k)    == IF result.isObject THEN Get(result.fields, k) ELSE Undefined

\* Mutant of MapResult: a module-level flag marks an outbound call as pending,
\* and a reply that arrives while another request's call is pending is dropped.
MapResultBusy(req, result) ==
    IF \E q \in Reqs : reqs[q] # req /\ reqs[q].pc \in {"awaitFetch", "awaitJson"}
    THEN CatchCreate(req, "busy")
    ELSE [ req EXCEPT
             !.pc  = "done",
             !.res = SendJson(400, << Entry("success", Bool(FALSE)),
                                      Entry("error", OrElse(Prop(result, "error"),
                                                            Str(MsgUnknownGateway))) >>) ]

\* The response to the caller for the parsed result.
MapResult(req, result) ==
    IF PropThrows(result) THEN CatchCreate(req, ErrNullProperty)
    ELSE IF Truthy(Prop(result, "success")) /\ Truthy(Prop(result, "payment_url")) THEN
        [ req EXCEPT
            !.pc  = "done",
            !.log = Append(req.log, LogEntry("log", "Platezh sozdan:",
                               <<Entry("payment_url", Prop(result, "payment_url"))>>)),
            !.res = SendJson(200, JsonStringify(
                       << Entry("success", Bool(TRUE)),
                          Entry("paymentUrl", Prop(result, "payment_url")),
                          Entry("paymentId", Prop(result, "payment_id")) >>)) ]
    ELSE
        [ req EXCEPT
            !.pc  = "done",
            !.log = Append(req.log, LogEntry("error", "Oshibka sozdaniya platezha:",
                               IF result.isObject THEN result.fields
                               ELSE <<Entry("value", result.val)>>)),
            !.res = SendJson(400, JsonStringify(
                       << Entry("success", Bool(FALSE)),
                          Entry("error", OrElse(Prop(result, "error"),
                                                Str(MsgUnknownGateway))) >>)) ]

\* response.json() resolves with the parsed body.
JsonResolves(r, results) ==
    /\ reqs[r].pc = "awaitJson"
    /\ \E result \in results :
          reqs' = [reqs EXCEPT ![r] = [MapResult(reqs[r], result) EXCEPT !.result = result]]
    /\ UNCHANGED <<variant, env, server, KASSA_CONFIG, startupLog>>

\* The response has been sent and the handler has returned: the request is over.
RequestEnds(r) ==
    /\ reqs[r].pc = "done"
    /\ reqs' = [reqs EXCEPT ![r] = IdleReq]
    /\ UNCHANGED <<variant, env, server, KASSA_CONFIG, startupLog>>

(***************************************************************************)
(* The environments the server is started in.                              *)
(***************************************************************************)
Envs ==
    { [ KASSA_MERCHANT_ID |-> m, KASSA_SECRET_KEY |-> k,
        KASSA_BASE_URL |-> u[1], BASE_URL |-> u[2] ] :
      m \in {"", "m-42", DEMO_MERCHANT_ID},
      k \in {"", "k-prod"},
      u \in {<<"", "">>, <<"https://gw.test", "https://shop.test">>} }

\* An object literal with the entries whose value is given (not Undefined).
Given(o) == SelectSeq(o, LAMBDA e : e.v # Undefined)

(***************************************************************************)
(* Request bodies of create-payment.                                       *)
(***************************************************************************)
CreateBody(amount, orderId, email, opt) ==
    Given(<< Entry("amount", amount), Entry("orderId", orderId), Entry("email", email),
             Entry("phone", opt[1]), Entry("description", opt[2]),
             Entry("paymentMethod", opt[3]) >>)

WideCreateBodies ==
    { CreateBody(a, o, e, opt) :
        a \in {Undefined, Str(""), Null, Num(0), Num(100), Str("100"), Str("abc"), ObjBadToString},
        o \in {Undefined, Str(""), Str("ORD1"), Num(7), ObjBadToString},
        e \in {Undefined, Str(""), Str("a@b.com")},
        opt \in { <<Undefined, Undefined, Undefined>>,
                  <<Str("+79001112233"), Str("Tea"), Str("sbp")>>,
                  <<Str(""), Null, Str("")>>,
                  <<Undefined, ObjBadToString, Undefined>> } }
    \cup { CreateBody(a, Str("ORD1"), Str("a@b.com"), <<Undefined, Undefined, Undefined>>) :
        a \in {Num(-5), Dec("0.001"), Dec("19.99"), Bool(TRUE)} }

CoreCreateBodies ==
    { CreateBody(Num(100), Str("ORD1"), Str("a@b.com"), <<Undefined, Undefined, Undefined>>),
      CreateBody(Str("100"), Str("ORD2"), Str("c@d.com"), <<Str("+79001112233"), Undefined, Undefined>>),
      CreateBody(Num(100), Undefined, Str("a@b.com"), <<Undefined, Undefined, Undefined>>) }

(***************************************************************************)
(* Bodies the processor answers the outbound POST with.                    *)
(***************************************************************************)
WideResults ==
    { JsonObject(Given(<< Entry("success", ok), Entry("payment_url", url),
                          Entry("payment_id", id), Entry("error", err) >>)) :
        ok  \in {Undefined, Bool(TRUE), Bool(FALSE)},
        url \in {Undefined, Str(""), Str("https://pay.test/1")},
        id  \in {Undefined, Str("pay_1")},
        err \in {Undefined, Str(""), Str("declined")} }
    \cup {JsonOther(Null), JsonOther(Num(5))}

CoreResults ==
    { JsonObject(<< Entry("success", Bool(TRUE)), Entry("payment_url", Str("https://pay.test/1")),
                    Entry("payment_id", Str("pay_1")) >>),
      JsonObject(<< Entry("success", Bool(FALSE)), Entry("error", Str("declined")) >>),
      JsonOther(Null) }

(***************************************************************************)
(* Request bodies of payment-callback: the fields other than sign, and the *)
(* sign values a sender may attach to them.                                *)
(***************************************************************************)
CallbackFields(orderId, status, paymentId, note) ==
    Given(<< Entry("order_id", orderId), Entry("status", status),
             Entry("payment_id", paymentId), Entry("note", note) >>)

WideCallbackFields ==
    { CallbackFields(Str("X"), st, Str("pay_1"), Undefined) :
        st \in {Str("succeeded"), Str("failed"), Str("canceled"), Str("refunded"),
                Str(""), Undefined, Num(1)} }
    \cup { CallbackFields(o, Str("succeeded"), Str("pay_1"), Undefined) :
        o \in {Str("7"), Num(7), ObjPlainA, ObjPlainB, ObjArray, Str("1,2"), ObjBadToString} }
    \cup { CallbackFields(Str("X"), st, Str("pay_1"), n) :
        st \in {Str("succeeded"), Str("refunded")}, n \in {Str(""), Null} }
    \cup { CallbackFields(Str("X"), Str("succeeded"), Undefined, Undefined), <<>> }
    \cup { CallbackFields(Str("X&payment_id=pay_1"), Str("succeeded"), Undefined, Undefined) }

\* Callbacks for the order of CoreCreateBodies.
CoreCallbackFields ==
    { CallbackFields(Str("ORD1"), st, Str("pay_1"), Undefined) :
        st \in {Str("succeeded"), Str("failed"), Str("refunded")} }

\* The secrets a sender of callbacks may sign with: the server's, or another.
SenderKeys == {KASSA_CONFIG.secretKey, "k-other"}

\* A sign computed by the sender over fields q with key k.
SenderSign(q, k) == Str(Hmac(k, SignString(q)))

WideSigns(fields) ==
    {Undefined, Str("deadbeef"), Num(5), ObjPlainA}
    \cup { SenderSign(q, k) :
             q \in {f \in WideCallbackFields : ~CanonThrows(f)}, k \in SenderKeys }
    \cup { SenderSign(PruneEmpty(q), KASSA_CONFIG.secretKey) :
             q \in {f \in {fields} : ~CanonThrows(f)} }

CoreSigns(fields) ==
    {SenderSign(fields, KASSA_CONFIG.secretKey)}
    \cup {Str("deadbeef") : f \in {fields} \cap {CallbackFields(Str("ORD1"), Str("failed"),
                                                               Str("pay_1"), Undefined)}}

\* The callback body: the fields, and the sign when one is attached.
WithSign(fields, sign) ==
    IF sign = Undefined THEN fields ELSE Append(fields, Entry("sign", sign))

WideCallbackBodies ==
    UNION { {WithSign(f, sg) : sg \in WideSigns(f)} : f \in WideCallbackFields }

CoreCallbackBodies ==
    UNION { {WithSign(f, sg) : sg \in CoreSigns(f)} : f \in CoreCallbackFields }

(***************************************************************************)
(* Specifications.                                                         *)
(***************************************************************************)
Init ==
    /\ variant \in {"strict", "permissive"}
    /\ env \in Envs
    /\ server = "starting"
    /\ KASSA_CONFIG = NoConfig
    /\ startupLog = <<>>
    /\ reqs = [r \in Reqs |-> IdleReq]

\* Requests arrive and are served concurrently: up to MaxReq are in flight.
Next ==
    \/ StartupStrict
    \/ StartupPermissive
    \/ \E r \in Reqs : CreatePaymentStrict(r, CoreCreateBodies)
    \/ \E r \in Reqs : CreatePaymentPermissive(r, CoreCreateBodies)
    \/ \E r \in Reqs, now \in 0..MaxClock : DemoTimerFires(r, now)
    \/ \E r \in Reqs : FetchRejects(r)
    \/ \E r \in Reqs : FetchResolves(r)
    \/ \E r \in Reqs : JsonRejects(r)
    \/ \E r \in Reqs : JsonResolves(r, CoreResults)
    \/ \E r \in Reqs : PaymentCallbackStrict(r, CoreCallbackBodies)
    \/ \E r \in Reqs : PaymentCallbackPermissive(r, CoreCallbackBodies)
    \/ \E r \in Reqs : RequestEnds(r)

Spec == Init /\ [][Next]_vars

\* No request other than r is being served.
Alone(r) == \A q \in Reqs \ {r} : reqs[q].pc = "idle"

\* One request at a time, over the wide sets of inputs.
NextWide ==
    \/ StartupStrict
    \/ StartupPermissive
    \/ \E r \in Reqs : Alone(r) /\ CreatePaymentStrict(r, WideCreateBodies)
    \/ \E r \in Reqs : Alone(r) /\ CreatePaymentPermissive(r, WideCreateBodies)
    \/ \E r \in Reqs, now \in 0..MaxClock : DemoTimerFires(r, now)
    \/ \E r \in Reqs : FetchRejects(r)
    \/ \E r \in Reqs : FetchResolves(r)
    \/ \E r \in Reqs : JsonRejects(r)
    \/ \E r \in Reqs : JsonResolves(r, WideResults)
    \/ \E r \in Reqs : Alone(r) /\ PaymentCallbackStrict(r, WideCallbackBodies)
    \/ \E r \in Reqs : Alone(r) /\ PaymentCallbackPermissive(r, WideCallbackBodies)
    \/ \E r \in Reqs : RequestEnds(r)

SpecWide == Init /\ [][NextWide]_vars

(***************************************************************************)
(* Properties.  The predicates below restate what the claims speak of, in  *)
(* terms of the request as it arrived and the response it got.             *)
(***************************************************************************)
\* The fields of a callback body other than sign.
FieldsOf(body) == SelectSeq(body, LAMBDA e : e.k # "sign")

\* The body's sign is the HMAC of its other fields under the server's secret.
SignatureMatches(body) ==
    /\ ~CanonThrows(FieldsOf(body))
    /\ Get(body, "sign") = Str(Hmac(KASSA_CONFIG.secretKey, SignString(FieldsOf(body))))

\* The server checks callback signatures: always in the strict variant, and in
\* the permissive one unless it runs with the demo merchant id.
Verifying == variant = "strict" \/ KASSA_CONFIG.merchantId # DEMO_MERCHANT_ID

CallbackDone(r) == reqs[r].kind = "callback" /\ reqs[r].pc = "done"
CreateDone(r)   == reqs[r].kind = "create" /\ reqs[r].pc = "done"

InvalidSignature == SendText(400, "Invalid signature")

\* C1 as stated: in either variant and under every configuration, a callback
\* whose sign is not the HMAC recomputed over its other fields (fields for
\* which that HMAC can be computed) is answered 400 'Invalid signature' and no
\* status branch runs.
C1_AsStated ==
    \A r \in Reqs :
        ( /\ CallbackDone(r)
          /\ ~CanonThrows(FieldsOf(reqs[r].body))
          /\ ~SignatureMatches(reqs[r].body) ) =>
            (reqs[r].res = InvalidSignature /\ reqs[r].handled = "")

\* C1 amended: where the server checks signatures (strict variant, or permissive
\* variant with a merchant id other than the demo one), a callback whose sign is
\* not the recomputed HMAC runs no status branch and is answered 400 'Invalid
\* signature', or 500 'Error' when building the canonical string raises.
C1_MismatchRejected ==
    \A r \in Reqs :
        (CallbackDone(r) /\ Verifying /\ ~SignatureMatches(reqs[r].body)) =>
            /\ reqs[r].handled = ""
            /\ reqs[r].res = IF CanonThrows(FieldsOf(reqs[r].body))
                             THEN SendText(500, "Error") ELSE InvalidSignature

\* C1 witness: the tampered callback of the spec: signed for status succeeded,
\* delivered with status failed, and rejected.
C1_Witness ==
    \E r \in Reqs :
        /\ CallbackDone(r) /\ Verifying
        /\ Get(reqs[r].body, "status") = Str("failed")
        /\ Get(reqs[r].body, "sign") =
               SenderSign(CallbackFields(Str("X"), Str("succeeded"), Str("pay_1"), Undefined),
                          KASSA_CONFIG.secretKey)
        /\ reqs[r].res = InvalidSignature

\* q and f have the same keys in the same order and differ in exactly one value.
OneValueChanged(q, f) ==
    /\ Len(q) = Len(f)
    /\ \A i \in 1..Len(q) : q[i].k = f[i].k
    /\ Cardinality({i \in 1..Len(q) : q[i].v # f[i].v}) = 1

\* C2 as stated (verification symmetry): where signatures are checked, a
\* callback whose sign was computed over its own fields with the server's
\* secret is accepted, and a callback whose sign was computed over fields that
\* differ from its own in one value (of any type or shape) is not accepted.
C2_Symmetry ==
    \A r \in Reqs :
        (CallbackDone(r) /\ Verifying) =>
            LET f  == FieldsOf(reqs[r].body)
                sg == Get(reqs[r].body, "sign")
            IN  /\ (~CanonThrows(f) /\ sg = SenderSign(f, KASSA_CONFIG.secretKey)) =>
                       reqs[r].res = SendText(200, "OK")
                /\ \A q \in WideCallbackFields :
                       ( /\ ~CanonThrows(q)
                         /\ OneValueChanged(q, f)
                         /\ sg = SenderSign(q, KASSA_CONFIG.secretKey) ) =>
                           reqs[r].res.status # 200

\* A value the pruning loop is meant to remove.
IsEmptyValue(v) == v \in {Str(""), Null, Undefined}

\* C3 as stated (field pruning on both sides): no field with an empty value is
\* among the fields create-payment signs, and, where signatures are checked, a
\* callback signed over its fields without the empty ones is accepted.
C3_PrunedBothSides ==
    \A r \in Reqs :
        /\ (reqs[r].kind = "create" /\ reqs[r].hmacs > 0) =>
               \A i \in 1..Len(reqs[r].paymentData) :
                   ~IsEmptyValue(reqs[r].paymentData[i].v)
        /\ (CallbackDone(r) /\ Verifying) =>
               LET f == FieldsOf(reqs[r].body)
               IN  ( /\ ~CanonThrows(f)
                     /\ Get(reqs[r].body, "sign") =
                            SenderSign(SelectSeq(f, LAMBDA e : ~IsEmptyValue(e.v)),
                                       KASSA_CONFIG.secretKey) ) =>
                       reqs[r].res = SendText(200, "OK")

\* C4 as stated (verification never raises): where signatures are checked, a
\* callback whose sign does not match, whatever the shape of its sign and of
\* its field values, is answered 400 and never 500.
C4_NeverRaises ==
    \A r \in Reqs :
        (CallbackDone(r) /\ Verifying /\ ~SignatureMatches(reqs[r].body)) =>
            reqs[r].res.status = 400

\* C5 (validation): a create-payment request whose amount, orderId or email is
\* missing or empty is answered at once with 400 and success:false; no
\* signature is computed for it and nothing is sent to the processor.
C5_ValidationRejects ==
    \A r \in Reqs :
        ( /\ reqs[r].kind = "create"
          /\ \/ IsEmptyValue(Get(reqs[r].body, "amount"))
             \/ IsEmptyValue(Get(reqs[r].body, "orderId"))
             \/ IsEmptyValue(Get(reqs[r].body, "email")) ) =>
            /\ reqs[r].pc = "done"
            /\ reqs[r].res.status = 400
            /\ Get(reqs[r].res.json, "success") = Bool(FALSE)
            /\ reqs[r].hmacs = 0
            /\ reqs[r].posts = <<>>

\* C5 witness: the spec's missing-field scenario: amount and email given, no
\* orderId, answered 400.
C5_Witness ==
    \E r \in Reqs :
        /\ CreateDone(r)
        /\ ~HasKey(reqs[r].body, "orderId")
        /\ Get(reqs[r].body, "amount") = Num(100)
        /\ Get(reqs[r].body, "email") = Str("a@b.com")
        /\ reqs[r].res.status = 400

\* C6 (status handling): for a callback whose signature matches, a status
\* branch runs exactly when the status is one of the strings succeeded, failed,
\* canceled, and it is the branch of that status; for any other status no
\* branch runs and the response is not a failure.
C6_StatusHandling ==
    \A r \in Reqs :
        (CallbackDone(r) /\ SignatureMatches(reqs[r].body)) =>
            LET st == Get(reqs[r].body, "status")
            IN  IF st \in {Str("succeeded"), Str("failed"), Str("canceled")}
                THEN reqs[r].handled = st.s
                ELSE reqs[r].handled = "" /\ reqs[r].res.status = 200

\* C6 witness: a correctly signed callback with status canceled, on a server
\* that checks signatures, ran the canceled branch.
C6_Witness ==
    \E r \in Reqs :
        /\ CallbackDone(r) /\ Verifying
        /\ SignatureMatches(reqs[r].body)
        /\ Get(reqs[r].body, "status") = Str("canceled")
        /\ reqs[r].handled = "canceled"

\* C7 (acknowledgment): every callback whose signature matches is answered
\* 200 'OK', whatever its status.
C7_Acknowledged ==
    \A r \in Reqs :
        (CallbackDone(r) /\ SignatureMatches(reqs[r].body)) =>
            reqs[r].res = SendText(200, "OK")

\* C7 witness: a correctly signed callback that carries no status at all, on a
\* server that checks signatures, answered 200 'OK'.
C7_Witness ==
    \E r \in Reqs :
        /\ CallbackDone(r) /\ Verifying
        /\ SignatureMatches(reqs[r].body)
        /\ ~HasKey(reqs[r].body, "status")
        /\ HasKey(reqs[r].body, "order_id")
        /\ reqs[r].res = SendText(200, "OK")

\* The processor's response has been parsed for request r.
Parsed(r) == reqs[r].result # NoResult

\* The parsed response indicates success and carries a payment URL.
IndicatesSuccess(result) ==
    /\ result.isObject
    /\ Get(result.fields, "success") = Bool(TRUE)
    /\ Get(result.fields, "payment_url") \notin {Undefined, Str("")}

\* 200 {success:true, paymentUrl, paymentId} with the processor's values.
SuccessResponse(result) ==
    SendJson(200, Given(<< Entry("success", Bool(TRUE)),
                           Entry("paymentUrl", Get(result.fields, "payment_url")),
                           Entry("paymentId", Get(result.fields, "payment_id")) >>))

\* 400 {success:false, error} with the processor's message or the fallback.
RejectionResponse(result) ==
    SendJson(400, << Entry("success", Bool(FALSE)),
                     Entry("error",
                           IF Get(result.fields, "error") \in {Undefined, Str("")}
                           THEN Str(MsgUnknownGateway)
                           ELSE Get(result.fields, "error")) >>)

\* 500 {success:false, error} with the fixed message.
InternalErrorResponse ==
    SendJson(500, << Entry("success", Bool(FALSE)), Entry("error", Str(MsgInternalError)) >>)

\* C8 as stated: once the processor's response is parsed, the answer is the
\* success response exactly when the response indicates success and carries a
\* payment URL, and the 400 rejection for every other parsed response.
C8_AsStated ==
    \A r \in Reqs :
        (CreateDone(r) /\ Parsed(r)) =>
            reqs[r].res = IF IndicatesSuccess(reqs[r].result)
                          THEN SuccessResponse(reqs[r].result)
                          ELSE RejectionResponse(reqs[r].result)

\* C8 amended: as stated for every parsed response other than JSON null; a
\* response that parses to null is answered 500 with the fixed internal-error
\* message.
C8_ResponseMapping ==
    \A r \in Reqs :
        (CreateDone(r) /\ Parsed(r)) =>
            reqs[r].res = IF reqs[r].result = JsonOther(Null) THEN InternalErrorResponse
                          ELSE IF IndicatesSuccess(reqs[r].result)
                               THEN SuccessResponse(reqs[r].result)
                               ELSE RejectionResponse(reqs[r].result)

\* C8 witness: a processor response with success, a payment URL and a payment
\* id was parsed and answered 200 with them.
C8_Witness ==
    \E r \in Reqs :
        /\ CreateDone(r) /\ Parsed(r)
        /\ IndicatesSuccess(reqs[r].result)
        /\ Get(reqs[r].res.json, "paymentUrl") = Str("https://pay.test/1")
        /\ Get(reqs[r].res.json, "paymentId") = Str("pay_1")
        /\ reqs[r].res.status = 200

\* C9 (transport failure): a create-payment request that sent its POST and
\* ended without a parsed response (the call failed, or the body was not JSON)
\* is answered 500 with success:false and the fixed message, nothing else.
C9_TransportFailure ==
    \A r \in Reqs :
        (CreateDone(r) /\ reqs[r].posts # <<>> /\ ~Parsed(r)) =>
            reqs[r].res = InternalErrorResponse

\* C9 witness: the processor's body was not JSON; the error went to the console
\* and the caller got the fixed 500.
C9_Witness ==
    \E r \in Reqs :
        /\ CreateDone(r) /\ reqs[r].posts # <<>> /\ ~Parsed(r)
        /\ reqs[r].log[Len(reqs[r].log)].data = ErrorValue(ErrNotJson)
        /\ reqs[r].res.status = 500

\* C10 (single call): a request sends at most one POST, to
\* {gatewayBaseUrl}/api/v1/payments, at every point of its handling.
C10_SinglePost ==
    \A r \in Reqs :
        /\ Len(reqs[r].posts) <= 1
        /\ \A i \in 1..Len(reqs[r].posts) :
              /\ reqs[r].posts[i].method = "POST"
              /\ reqs[r].posts[i].url =
                    (IF env.KASSA_BASE_URL # "" THEN env.KASSA_BASE_URL
                     ELSE "https://payment.kassa.ai") \o "/api/v1/payments"

\* C10 witness: the network call failed, the request ended with 500, and one
\* POST was sent.
C10_Witness ==
    \E r \in Reqs :
        /\ CreateDone(r)
        /\ Len(reqs[r].posts) = 1
        /\ reqs[r].log[Len(reqs[r].log)].data = ErrorValue(ErrFetchFailed)
        /\ reqs[r].res.status = 500

\* The status of a callback body, when it is one of the terminal ones.
HasTerminalStatus(body) ==
    Get(body, "status") \in {Str("succeeded"), Str("failed"), Str("canceled")}

\* C11 (no guard against duplicates or reordering): whenever a correctly signed
\* callback with a terminal status is handled while earlier callbacks are on
\* record (accepted or rejected, for the same order or another, with the same
\* status or another), it is answered 200 'OK'; and when one of the earlier
\* callbacks was accepted for the same order and ran its status branch, the
\* later one runs the branch of its own status too.
C11_NoDuplicateGuard ==
    [][ \A r \in Reqs, q \in Reqs :
          ( /\ q # r
            /\ CallbackDone(q)
            /\ reqs[r].pc = "idle"
            /\ reqs'[r].kind = "callback" /\ reqs'[r].pc = "done"
            /\ SignatureMatches(reqs'[r].body)
            /\ HasTerminalStatus(reqs'[r].body) ) =>
              /\ reqs'[r].res = SendText(200, "OK")
              /\ ( /\ reqs[q].handled # ""
                   /\ Get(reqs[q].body, "order_id") = Get(reqs'[r].body, "order_id") ) =>
                     reqs'[r].handled = Get(reqs'[r].body, "status").s ]_vars

\* C11 witness: on a server that checks signatures, a succeeded callback and a
\* failed callback for the same order, both correctly signed, were both
\* answered 200 'OK' and both ran their status branch.
C11_Witness ==
    \E r \in Reqs, q \in Reqs :
        /\ q # r /\ Verifying
        /\ CallbackDone(q) /\ CallbackDone(r)
        /\ SignatureMatches(reqs[q].body) /\ SignatureMatches(reqs[r].body)
        /\ Get(reqs[q].body, "order_id") = Get(reqs[r].body, "order_id")
        /\ reqs[q].handled = "succeeded" /\ reqs[q].res = SendText(200, "OK")
        /\ reqs[r].handled = "failed" /\ reqs[r].res = SendText(200, "OK")

\* The text t occurs in the text s.
Contains(s, t) ==
    \E i \in 1..(Len(s) - Len(t) + 1) : SubSeq(s, i, i + Len(t) - 1) = t

\* The text of an order id given as a string or as an integer.
IdText(v) == IF v.t = "string" THEN v.s ELSE ToString(v.n)

\* The URL field k of a payment request is present and contains the text t.
UrlContains(paymentData, k, t) ==
    /\ HasKey(paymentData, k)
    /\ Get(paymentData, k).t = "string"
    /\ Contains(Get(paymentData, k).s, t)

\* C12 as stated: every PaymentRequest the create-payment handler builds has
\* the three URLs success_url, fail_url and callback_url, and each of the three
\* contains the order id.
C12_AsStated ==
    \A r \in Reqs :
        (reqs[r].kind = "create" /\ reqs[r].paymentData # <<>>) =>
            \A k \in {"success_url", "fail_url", "callback_url"} :
                UrlContains(reqs[r].paymentData, k, IdText(Get(reqs[r].body, "orderId")))

\* C12 amended: every PaymentRequest the create-payment handler builds has the
\* three URLs; success_url and fail_url contain the order id (they end with
\* ?order_id= and the order id), and callback_url is the base URL followed by
\* the fixed path /api/payment-callback, without the order id.
C12_UrlsBuilt ==
    \A r \in Reqs :
        (reqs[r].kind = "create" /\ reqs[r].paymentData # <<>>) =>
            LET id   == IdText(Get(reqs[r].body, "orderId"))
                base == IF env.BASE_URL # "" THEN env.BASE_URL ELSE "http://" \o reqs[r].host
            IN  /\ UrlContains(reqs[r].paymentData, "success_url", "?order_id=" \o id)
                /\ UrlContains(reqs[r].paymentData, "fail_url", "?order_id=" \o id)
                /\ Get(reqs[r].paymentData, "callback_url") =
                       Str(base \o "/api/payment-callback")

\* C12 witness: the spec's happy-path request (amount 100, order ORD1) was
\* sent to the processor with success_url and fail_url containing ORD1.
C12_Witness ==
    \E r \in Reqs :
        /\ reqs[r].kind = "create" /\ reqs[r].posts # <<>>
        /\ Get(reqs[r].body, "orderId") = Str("ORD1")
        /\ Get(reqs[r].paymentData, "amount") = Num(10000)
        /\ UrlContains(reqs[r].paymentData, "success_url", "ORD1")
        /\ UrlContains(reqs[r].paymentData, "fail_url", "ORD1")
        /\ ~UrlContains(reqs[r].paymentData, "callback_url", "ORD1")

\* C13 as stated (no secret other than a configured one): every HMAC is
\* computed with the secret the environment supplies; and when the environment
\* lacks the merchant id or the secret, the strict variant never listens and
\* serves no request, and the permissive variant computes no HMAC and sends
\* nothing to the processor.
C13_NoUnconfiguredSecret ==
    /\ \A r \in Reqs :
           reqs[r].hmacs > 0 =>
               (env.KASSA_SECRET_KEY # "" /\ KASSA_CONFIG.secretKey = env.KASSA_SECRET_KEY)
    /\ (env.KASSA_MERCHANT_ID = "" \/ env.KASSA_SECRET_KEY = "") =>
           /\ variant = "strict" =>
                  (server # "listening" /\ \A r \in Reqs : reqs[r] = IdleReq)
           /\ variant = "permissive" =>
                  \A r \in Reqs : reqs[r].hmacs = 0 /\ reqs[r].posts = <<>>

\* The secrets the server holds: the one it signs with and the one the
\* environment gives it.
Secrets == {KASSA_CONFIG.secretKey, env.KASSA_SECRET_KEY} \ {""}

\* Some value of the object o shows a secret.  A digest is not the secret:
\* the value that is the digest itself is exempt.
ObjectShowsSecret(o, digest) ==
    \E i \in 1..Len(o), k \in Secrets : o[i].v # digest /\ Contains(o[i].v.s, k)

\* Some console entry of the sequence shows a secret.
LogShowsSecret(log) ==
    \E i \in 1..Len(log) :
        \/ \E k \in Secrets : Contains(log[i].text, k)
        \/ ObjectShowsSecret(log[i].data, Undefined)

\* C14 (the secret stays inside): the signing secret occurs in no payload sent
\* to the processor (the sign field holds a digest, never the secret), in no
\* HTTP response and in no console entry, of startup or of any request, at
\* any point of its handling.
C14_SecretNeverShown ==
    /\ ~LogShowsSecret(startupLog)
    /\ \A r \in Reqs :
           /\ ~LogShowsSecret(reqs[r].log)
           /\ \A k \in Secrets : ~Contains(reqs[r].res.text, k)
           /\ ~ObjectShowsSecret(reqs[r].res.json, Undefined)
           /\ \A i \in 1..Len(reqs[r].posts) :
                  /\ \A k \in Secrets : ~Contains(reqs[r].posts[i].url, k)
                  /\ ~ObjectShowsSecret(reqs[r].posts[i].body,
                         Str(Hmac(KASSA_CONFIG.secretKey, reqs[r].signString)))
                  /\ Get(reqs[r].posts[i].body, "sign") # Str(KASSA_CONFIG.secretKey)

\* C14 witness: a server configured with a secret signed and sent a payment
\* request, the call failed, the error went to the console and the caller got
\* the 500 response.
C14_Witness ==
    \E r \in Reqs :
        /\ env.KASSA_SECRET_KEY # ""
        /\ CreateDone(r) /\ reqs[r].hmacs = 1 /\ Len(reqs[r].posts) = 1
        /\ HasKey(reqs[r].posts[1].body, "sign")
        /\ reqs[r].log # <<>>
        /\ reqs[r].res.status = 500

\* C15 (the sign field is not signed): whenever a handler has computed an
\* HMAC, the canonical string it was computed over is the one of the fields
\* other than sign: in payment-callback the sign of the body is left out, and
\* in create-payment the payload gets its sign field, holding the digest of
\* that string, only afterwards.
C15_SignNotSigned ==
    \A r \in Reqs :
        reqs[r].hmacs > 0 =>
            /\ ~Contains("&" \o reqs[r].signString, "&sign=")
            /\ reqs[r].kind = "callback" =>
                   reqs[r].signString = SignString(FieldsOf(reqs[r].body))
            /\ reqs[r].kind = "create" =>
                   /\ reqs[r].signString = SignString(FieldsOf(reqs[r].paymentData))
                   /\ Get(reqs[r].paymentData, "sign") =
                          Str(Hmac(KASSA_CONFIG.secretKey, reqs[r].signString))

\* C15 witness: a callback that carries a sign field was verified: its
\* canonical string was built, without the sign, and the callback was rejected
\* because the sign is not the digest.
C15_Witness ==
    \E r \in Reqs :
        /\ CallbackDone(r) /\ reqs[r].hmacs = 1
        /\ Get(reqs[r].body, "sign") = Str("deadbeef")
        /\ reqs[r].signString = "order_id=X&payment_id=pay_1&status=succeeded"
        /\ reqs[r].res = InvalidSignature

\* The orders the entries of o can be inserted in.
Reorderings(o) ==
    { [i \in 1..Len(o) |-> o[p[i]]] :
        p \in {f \in [1..Len(o) -> 1..Len(o)] : \A i, j \in 1..Len(o) : f[i] = f[j] => i = j} }

\* o with its entries in reverse order, and o rotated by n places.
Reversed(o)   == [i \in 1..Len(o) |-> o[Len(o) + 1 - i]]
Rotated(o, n) == [i \in 1..Len(o) |-> o[((i + n - 1) % Len(o)) + 1]]

\* C16 (canonicalization does not depend on insertion order): the canonical
\* string a handler computed for its fields is the one every other insertion
\* order of the same fields yields, and so is the digest under the server's
\* secret; the empty field set yields the empty string.  Checked for every
\* order of a callback's fields, and for the reversed and rotated orders of a
\* payment request's fields.
C16_OrderIndependent ==
    \A r \in Reqs :
        /\ (CallbackDone(r) /\ reqs[r].hmacs > 0) =>
               /\ \A o \in Reorderings(FieldsOf(reqs[r].body)) :
                      /\ SignString(o) = reqs[r].signString
                      /\ Hmac(KASSA_CONFIG.secretKey, SignString(o)) = reqs[r].expectedSign
               /\ FieldsOf(reqs[r].body) = <<>> => reqs[r].signString = ""
        /\ (reqs[r].kind = "create" /\ reqs[r].pc = "awaitFetch") =>
               LET f == FieldsOf(reqs[r].paymentData)
               IN  \A o \in {Reversed(f)} \cup {Rotated(f, n) : n \in 1..Len(f)} :
                      /\ SignString(o) = reqs[r].signString
                      /\ Str(Hmac(KASSA_CONFIG.secretKey, SignString(o))) =
                             Get(reqs[r].paymentData, "sign")

\* C16 witness: a callback whose fields arrive in the order order_id, status,
\* payment_id (not the ascending one) was verified over the string with the
\* keys ascending and accepted.
C16_Witness ==
    \E r \in Reqs :
        /\ CallbackDone(r) /\ reqs[r].hmacs = 1
        /\ ObjectKeys(FieldsOf(reqs[r].body)) = <<"order_id", "status", "payment_id">>
        /\ reqs[r].signString = "order_id=X&payment_id=pay_1&status=failed"
        /\ reqs[r].res = SendText(200, "OK")

\* Requests r and q got the same input: the same route, body and Host header.
SameInput(r, q) ==
    /\ reqs[r].kind = reqs[q].kind
    /\ reqs[r].kind # "none"
    /\ reqs[r].body = reqs[q].body
    /\ reqs[r].host = reqs[q].host

\* Both requests are answered, and the processor replied the same to both.
SameReply(r, q) ==
    /\ reqs[r].pc = "done" /\ reqs[q].pc = "done"
    /\ reqs[r].result = reqs[q].result

\* A response object without its paymentId.
WithoutPaymentId(json) == SelectSeq(json, LAMBDA e : e.k # "paymentId")

\* C17 as stated (requests share no state): two requests served by the same
\* server with the same input send the same payload to the processor, and
\* when the processor replied the same to both they get the same response,
\* however their handling and that of other requests interleave.
C17_AsStated ==
    \A r \in Reqs, q \in Reqs :
        (q # r /\ SameInput(r, q)) =>
            /\ (reqs[r].posts # <<>> /\ reqs[q].posts # <<>>) => reqs[r].posts = reqs[q].posts
            /\ SameReply(r, q) => reqs[r].res = reqs[q].res

\* C17 amended: as stated, except that in the demo mode of the permissive
\* variant the paymentId of the response is made of the clock reading taken
\* when the simulated delay ends: there, two such requests get responses that
\* agree in everything but the paymentId.
C17_RequestsIndependent ==
    \A r \in Reqs, q \in Reqs :
        (q # r /\ SameInput(r, q)) =>
            /\ (reqs[r].posts # <<>> /\ reqs[q].posts # <<>>) => reqs[r].posts = reqs[q].posts
            /\ SameReply(r, q) =>
                   IF variant = "permissive" /\ KASSA_CONFIG.merchantId = DEMO_MERCHANT_ID
                   THEN /\ reqs[r].res.status = reqs[q].res.status
                        /\ reqs[r].res.text = reqs[q].res.text
                        /\ WithoutPaymentId(reqs[r].res.json) = WithoutPaymentId(reqs[q].res.json)
                   ELSE reqs[r].res = reqs[q].res

\* C17 witness: two create-payment requests with the same body were in flight
\* together, the processor rejected both with the same body, and both got the
\* same 400 response after sending the same payload.
C17_Witness ==
    \E r \in Reqs, q \in Reqs :
        /\ q # r /\ SameInput(r, q) /\ SameReply(r, q)
        /\ reqs[r].kind = "create" /\ Parsed(r)
        /\ reqs[r].posts # <<>> /\ reqs[r].posts = reqs[q].posts
        /\ reqs[r].res.status = 400 /\ reqs[r].res = reqs[q].res

\* Request r is suspended at an await of create-payment.
Suspended(r) == reqs[r].pc \in {"awaitTimer", "awaitFetch", "awaitJson"}

\* A callback request with an empty body.  The handlers start whatever the
\* body is, so one body decides whether a callback can be taken.
EmptyCallback == {<<>>}

\* The next step of request q can be taken now: a free slot can take a
\* create-payment or a callback request, and a suspended request can take up
\* the outcome it awaits.
CanProceed(q) ==
    CASE reqs[q].pc = "idle" ->
             /\ ENABLED (CreatePaymentStrict(q, CoreCreateBodies)
                            \/ CreatePaymentPermissive(q, CoreCreateBodies))
             /\ ENABLED (PaymentCallbackStrict(q, EmptyCallback)
                            \/ PaymentCallbackPermissive(q, EmptyCallback))
      [] reqs[q].pc = "awaitTimer" -> ENABLED DemoTimerFires(q, 0)
      [] reqs[q].pc = "awaitFetch" -> ENABLED FetchResolves(q) /\ ENABLED FetchRejects(q)
      [] reqs[q].pc = "awaitJson"  -> ENABLED JsonResolves(q, CoreResults)
                                         /\ ENABLED JsonRejects(q)
      [] reqs[q].pc = "done"       -> ENABLED RequestEnds(q)

\* C18 (a suspended request blocks nobody): while a create-payment request is
\* suspended at an await, every other request can take its next step, from
\* its arrival to its response: it never has to wait for the suspended
\* request's outbound call to finish.
C18_NoBlocking ==
    \A q \in Reqs :
        (\E r \in Reqs \ {q} : Suspended(r)) => CanProceed(q)

\* C18 witness: one create-payment request awaits the processor's reply, and
\* next to it a correctly signed succeeded callback for its order has been
\* verified and answered 200 'OK'.
C18_Witness ==
    \E r \in Reqs, q \in Reqs :
        /\ q # r
        /\ reqs[r].kind = "create" /\ reqs[r].pc = "awaitFetch"
        /\ CallbackDone(q) /\ Verifying /\ SignatureMatches(reqs[q].body)
        /\ Get(reqs[q].body, "order_id") = Get(reqs[r].body, "orderId")
        /\ reqs[q].handled = "succeeded"
        /\ reqs[q].res = SendText(200, "OK")

\* No field of o has an empty value: o is as the pruning loop leaves it.
IsPruned(o) == \A i \in 1..Len(o) : ~IsEmptyValue(o[i].v)

\* The field sets q and f differ in their keys or in the text of some value.
FieldSetsDiffer(q, f) ==
    \/ {q[i].k : i \in 1..Len(q)} # {f[i].k : i \in 1..Len(f)}
    \/ \E i \in 1..Len(q) : HasKey(f, q[i].k) /\ ToStr(q[i].v) # ToStr(Get(f, q[i].k))

\* C19 as stated (canonical strings are unambiguous): two pruned field sets
\* that differ in their keys or in the text of some value have different
\* canonical strings; so, where signatures are checked, a callback whose sign
\* was issued with the server's secret for a field set other than its own is
\* not accepted.
C19_Unambiguous ==
    \A r \in Reqs :
        (CallbackDone(r) /\ Verifying) =>
            LET f == FieldsOf(reqs[r].body)
            IN  \A q \in WideCallbackFields :
                    ( /\ ~CanonThrows(q) /\ ~CanonThrows(f)
                      /\ IsPruned(q) /\ IsPruned(f)
                      /\ FieldSetsDiffer(q, f)
                      /\ Get(reqs[r].body, "sign") =
                             Str(Hmac(KASSA_CONFIG.secretKey, SignString(q))) ) =>
                        /\ SignString(q) # SignString(f)
                        /\ reqs[r].res.status # 200

\* v is a positive integer.
IsPositiveInteger(v) == v.t = "number" /\ v.s = "" /\ v.n > 0

\* C20 as stated (amounts in minor units): the amount a create-payment
\* request signs, and the amount of the payload it sends to the processor, is
\* a positive integer, and it is 100 times the requested amount when that is
\* an integer; a request whose amount normalizes to zero, to a negative number
\* or to no number is neither signed nor sent.
C20_PositiveMinorUnits ==
    \A r \in Reqs :
        (reqs[r].kind = "create" /\ reqs[r].hmacs > 0) =>
            LET requested == Get(reqs[r].body, "amount")
                signed    == Get(reqs[r].paymentData, "amount")
            IN  /\ IsPositiveInteger(signed)
                /\ (requested.t = "number" /\ requested.s = "") =>
                       signed.n = requested.n * 100
                /\ \A i \in 1..Len(reqs[r].posts) :
                       Get(reqs[r].posts[i].body, "amount") = signed

====
